---- MODULE Spec2Model ----
(***************************************************************************)
(* BrainPlus backend: the attribution-and-fraud core.                      *)
(*                                                                         *)
(*   Risk Scorer      backend/app/core/fraud_detection.py                  *)
(*   Redirect Ledger  backend/app/api/v1/attribution.py                    *)
(*   Click endpoint   backend/app/api/v1/deals.py                          *)
(*                                                                         *)
(* Time is counted in whole seconds.  Every handler is an `async def`      *)
(* without an await, so on one event loop a handler call is one atomic     *)
(* step.  The scorer run by several threads is modelled statement by       *)
(* statement further down (SpecThreads).                                   *)
(***************************************************************************)
EXTENDS Integers, Sequences, FiniteSets

VARIABLES
    clock,           \* the wall clock read by datetime.now(), in seconds
    event_tracking,  \* fraud_detection.event_tracking: identity -> list of timestamps
    redirect_store,  \* attribution.redirect_store: short_id -> mapping
    response,        \* what the latest handler call returned (or raised)
    ncalls,          \* check_fraud_score calls made so far
    nticks,          \* clock advances made so far
    nmints,          \* create_redirect_mapping calls made so far
    nclicks,         \* record_deal_click calls made so far
    minted_args,     \* history: short_id -> arguments of its latest mint
    click_tokens,    \* history: client -> short_id its latest click returned
    threads,         \* thread -> frame of the check_fraud_score call it is running
    heap             \* the list objects event_tracking refers to, when threads run

vars == <<clock, event_tracking, redirect_store, response, ncalls, nticks,
          nmints, nclicks, minted_args, click_tokens, threads, heap>>

\* what the Risk Scorer never touches
ledger_vars == <<redirect_store, nmints, nclicks, minted_args, click_tokens>>
\* what the Redirect Ledger and the click endpoint never touch
scorer_vars == <<clock, event_tracking, ncalls, nticks>>
\* what only the statement-by-statement scorer touches
thread_vars == <<threads, heap>>

(***************************************************************************)
(* Program constants                                                       *)
(***************************************************************************)
\* timedelta(hours=24), in seconds
Hours24 == 86400
\* timedelta(hours=1), in seconds
Hours1 == 3600
\* events_per_hour > 100
VelocityHigh == 100
\* events_per_hour > 50
VelocityMid == 50
\* score += 40
VelocityHighScore == 40
\* score += 20 (second velocity band)
VelocityMidScore == 20
\* num_events > 80
BatchLimit == 80
\* score += 10
BatchScore == 10
\* behavioral_score = 0
behavioral_score == 0
\* len(event_tracking[anonymous_id]) > 10
TimingMinEvents == 10
\* score += 20 (timing)
TimingScore == 20
\* fingerprint_score = 0
fingerprint_score == 0
\* min(score, 100)
ScoreCap == 100

(***************************************************************************)
(* Bounds of the model                                                     *)
(***************************************************************************)
\* scoring calls in one behaviour of Spec
MaxCalls == 3
\* clock advances in one behaviour of Spec
MaxTicks == 2
\* scoring calls in one behaviour of SpecVelocity
MaxBurst == 102
\* scoring calls in one behaviour of SpecTiming
MaxTimed == 11
\* create_redirect_mapping calls in one behaviour
MaxMints == 2
\* record_deal_click calls in one behaviour
MaxClicks == 2
\* scoring calls begun in one behaviour of SpecThreads
MaxThreadCalls == 2
\* scoring calls, clock advances, mints and clicks in one behaviour of SpecSystem
MaxSystemOps == 5

IdentityKeys == {"u1", "u2"}

\* Optional[int]: None is the empty sequence, the integer n is <<n>>
NoneValue == <<>>
BatchSizes == {NoneValue, <<-1>>, <<0>>, <<80>>, <<81>>}
BurstBatchSizes == {<<-1>>, <<1>>, <<81>>}

\* how far the clock moves in one advance (Spec)
ClockSteps == {1, 2, Hours1 - 1, Hours1, Hours24 - 1, Hours24, Hours24 + 1}
\* how far the clock moves in one advance (SpecVelocity)
BurstSteps == {Hours1 - 1, Hours1}
\* SpecVelocity follows one simulated hour of traffic
BurstHorizon == Hours1
\* seconds between two successive requests (SpecTiming)
Gaps == {4, 5, 6}
\* seconds the clock moves between two thread steps (SpecThreads)
ThreadSteps == {1}

(***************************************************************************)
(* Risk Scorer                                                             *)
(***************************************************************************)
\* sum(s), by halves so that the evaluation stays shallow on long lists
RECURSIVE SumRange(_, _, _)
SumRange(s, lo, hi) ==
    IF lo > hi THEN 0
    ELSE IF lo = hi THEN s[lo]
    ELSE LET mid == (lo + hi) \div 2
         IN  SumRange(s, lo, mid) + SumRange(s, mid + 1, hi)

SumSeq(s) == SumRange(s, 1, Len(s))

Range(s) == {s[i] : i \in 1..Len(s)}
MaxSeq(s) == CHOOSE m \in Range(s) : \A x \in Range(s) : x <= m
MinSeq(s) == CHOOSE m \in Range(s) : \A x \in Range(s) : m <= x

\* the list an identity has in event_tracking ([] when it is created lazily)
History(k) == IF k \in DOMAIN event_tracking THEN event_tracking[k] ELSE <<>>

\* no cleaning at all
PruneOldNever(h, now) == h

\* the cutoff with <= in place of <
PruneOldInclusive(h, now) == SelectSeq(h, LAMBDA ts : now - ts <= Hours24)

\* [ts for ts in event_tracking[anonymous_id] if now - ts < timedelta(hours=24)]
PruneOld(h, now) == SelectSeq(h, LAMBDA ts : now - ts < Hours24)

\* [ts for ts in event_tracking[anonymous_id] if now - ts < timedelta(hours=1)]
RecentEvents(h, now) == SelectSeq(h, LAMBDA ts : now - ts < Hours1)

\* the bands with >= in place of >
VelocityTermInclusive(events_per_hour) ==
    IF events_per_hour >= VelocityHigh THEN VelocityHighScore
    ELSE IF events_per_hour >= VelocityMid THEN VelocityMidScore
    ELSE 0

\* if events_per_hour > 100: 40 elif events_per_hour > 50: 20
VelocityTerm(events_per_hour) ==
    IF events_per_hour > VelocityHigh THEN VelocityHighScore
    ELSE IF events_per_hour > VelocityMid THEN VelocityMidScore
    ELSE 0

\* the batch size itself added when it is under the limit
BatchTermRaw(num_events) ==
    IF num_events > BatchLimit THEN BatchScore ELSE num_events

\* if num_events > 80: score += 10      (num_events an integer)
BatchTerm(num_events) == IF num_events > BatchLimit THEN BatchScore ELSE 0

\* (h[i] - h[i-1]).total_seconds() for i in range(1, len(h))
Intervals(h) == [i \in 1..(Len(h) - 1) |-> h[i + 1] - h[i]]

\* variance < 1.0, for mean = sum(x)/n and variance = sum((x - mean)**2)/n.
\* Multiplied through by n*n*n:  sum((n*x - sum(x))**2) < n*n*n.
\* The variance does not change when every x is shifted by min(x), and a
\* spread d = max(x) - min(x) forces n*variance >= d*d/2; both are used only
\* to keep every intermediate value inside TLC's 32-bit integers.
VarianceBelowOne(intervals) ==
    LET n  == Len(intervals)
        lo == MinSeq(intervals)
        d  == MaxSeq(intervals) - lo
        y  == [i \in 1..n |-> intervals[i] - lo]
        s  == SumSeq(y)
        sq == [i \in 1..n |-> (n * y[i] - s) * (n * y[i] - s)]
    IN  IF d >= n /\ n >= 2 THEN FALSE
        ELSE IF d * d >= 2 * n THEN FALSE
        ELSE SumSeq(sq) < n * n * n

\* the length test with >= in place of >
TimingTermInclusive(h) ==
    IF Len(h) >= TimingMinEvents
    THEN LET intervals == Intervals(h)
         IN  IF intervals # <<>> /\ VarianceBelowOne(intervals)
             THEN TimingScore ELSE 0
    ELSE 0

\* if len(h) > 10: ... if intervals: ... if variance < 1.0: score += 20
TimingTerm(h) ==
    IF Len(h) > TimingMinEvents
    THEN LET intervals == Intervals(h)
         IN  IF intervals # <<>> /\ VarianceBelowOne(intervals)
             THEN TimingScore ELSE 0
    ELSE 0

\* min(score, 100)
Clamp(score) == IF score < ScoreCap THEN score ELSE ScoreCap

\* check_fraud_score(anonymous_id, num_events) with datetime.now() = now.
\* the sum with a behavioural-entropy term that finds its full weight of 30
RawScoreEntropyLive(velocity, batch, timing) ==
    velocity + batch + 30 + timing + fingerprint_score

\* the pre-clamp sum of the four terms: `score` just before `min(score, 100)`
RawScore(velocity, batch, timing) ==
    velocity + batch + behavioral_score + timing + fingerprint_score

\* What a call returns, or raises, once the identity's history is `history`:
\* everything from the velocity check down to the return statement.
Outcome(history, now, anonymous_id, num_events) ==
    LET velocity == VelocityTerm(Len(RecentEvents(history, now)))
        timing   == TimingTerm(history)
        call     == [op |-> "check_fraud_score", anonymous_id |-> anonymous_id,
                     num_events |-> num_events, now |-> now]
    IN  IF num_events = NoneValue
        THEN [call |-> call, raised |-> "TypeError"]
        ELSE LET raw == RawScore(velocity, BatchTerm(num_events[1]), timing)
             IN  [call |-> call, raised |-> "",
                  velocity |-> velocity, timing |-> timing,
                  raw |-> raw, score |-> Clamp(raw)]

\* a scorer that cleans the history of every identity on each call
ScorePruneAll(now, anonymous_id, num_events) ==
    LET appended == Append(History(anonymous_id), now)
    IN  /\ event_tracking' =
               [k \in DOMAIN event_tracking \cup {anonymous_id} |->
                   IF k = anonymous_id THEN PruneOld(appended, now)
                   ELSE PruneOld(event_tracking[k], now)]
        /\ response' = Outcome(PruneOld(appended, now), now, anonymous_id, num_events)

\* The history is updated before num_events is looked at, so a call that
\* raises at `num_events > 80` has already appended and pruned.
Score(now, anonymous_id, num_events) ==
    LET appended == Append(History(anonymous_id), now)
        pruned   == PruneOld(appended, now)
    IN  /\ event_tracking' =
               [k \in DOMAIN event_tracking \cup {anonymous_id} |->
                   IF k = anonymous_id THEN pruned ELSE event_tracking[k]]
        /\ response' = Outcome(pruned, now, anonymous_id, num_events)

\* a request scored at the current clock reading
check_fraud_score(anonymous_id, num_events) ==
    /\ ncalls' = ncalls + 1
    /\ Score(clock, anonymous_id, num_events)
    /\ UNCHANGED <<clock, nticks>>
    /\ UNCHANGED ledger_vars
    /\ UNCHANGED thread_vars

\* time passes between two requests
AdvanceClock(d) ==
    /\ nticks' = nticks + 1
    /\ clock' = clock + d
    /\ UNCHANGED <<event_tracking, response, ncalls>>
    /\ UNCHANGED ledger_vars
    /\ UNCHANGED thread_vars

\* a request that arrives d seconds after the previous one and is scored then
RequestAfter(d, anonymous_id, num_events) ==
    /\ ncalls' = ncalls + 1
    /\ clock' = clock + d
    /\ Score(clock + d, anonymous_id, num_events)
    /\ UNCHANGED nticks
    /\ UNCHANGED ledger_vars
    /\ UNCHANGED thread_vars

NoResponse == [call |-> [op |-> "none"], raised |-> ""]

\* the threads that may run the scorer at the same time
Threads == {"T1", "T2"}
\* a thread that is not inside a call
IdleFrame == [pc |-> "idle"]
\* no list object allocated yet
EmptyHeap == [objs |-> <<>>, at |-> <<>>]

Init ==
    /\ clock = 0
    /\ event_tracking = <<>>
    /\ redirect_store = <<>>
    /\ response = NoResponse
    /\ ncalls = 0
    /\ nticks = 0
    /\ nmints = 0
    /\ nclicks = 0
    /\ minted_args = <<>>
    /\ click_tokens = <<>>
    /\ threads = [t \in Threads |-> IdleFrame]
    /\ heap = EmptyHeap

Next ==
    \/ \E k \in IdentityKeys, n \in BatchSizes :
           ncalls < MaxCalls /\ check_fraud_score(k, n)
    \/ \E d \in ClockSteps : nticks < MaxTicks /\ AdvanceClock(d)

Spec == Init /\ [][Next]_vars

\* one identity sending a burst of requests within one hour: some at the
\* start, a pause of one hour or one second less, and the rest
NextVelocity ==
    \/ \E n \in BurstBatchSizes :
           ncalls < MaxBurst /\ check_fraud_score("u1", n)
    \/ \E d \in BurstSteps : clock + d <= BurstHorizon /\ AdvanceClock(d)

SpecVelocity == Init /\ [][NextVelocity]_vars

\* one identity sending requests a few seconds apart
NextTiming ==
    \E d \in Gaps : ncalls < MaxTimed /\ RequestAfter(d, "u1", <<1>>)

SpecTiming == Init /\ [][NextTiming]_vars

(***************************************************************************)
(* The scorer run by several threads                                       *)
(*                                                                         *)
(* check_fraud_score takes no lock.  When two threads run it, a thread     *)
(* switch can fall between any two of its statements, and between the      *)
(* load of event_tracking[anonymous_id] and the use of the list loaded.    *)
(* Lists are objects: append changes the object in place, the cleaning     *)
(* statement binds the key to a new object.  One step below is one read    *)
(* or write of shared state; the list comprehension reads its list in one  *)
(* step, and so does everything after the cleaning statement.              *)
(***************************************************************************)
\* the list object event_tracking[k] refers to
ListAt(h, k) == h.objs[h.at[k]]

\* event_tracking as the dictionary reads when the heap is h
Tracking(h) == [k \in DOMAIN h.at |-> ListAt(h, k)]

\* event_tracking[k] = list: the key is bound to a new list object
Bind(h, k, list) ==
    [objs |-> Append(h.objs, list),
     at   |-> [j \in DOMAIN h.at \cup {k} |->
                  IF j = k THEN Len(h.objs) + 1 ELSE h.at[j]]]

\* ref.append(x): the object is changed in place, whoever refers to it
AppendTo(h, ref, x) == [h EXCEPT !.objs[ref] = Append(@, x)]

\* calls begun and not yet returned
Busy == Cardinality({t \in Threads : threads[t].pc # "idle"})

\* a step of thread t that touches no shared state
LocalStep(t, frame) ==
    /\ threads' = [threads EXCEPT ![t] = frame]
    /\ UNCHANGED <<heap, event_tracking, response, ncalls, clock, nticks>>
    /\ UNCHANGED ledger_vars

\* a step of thread t that leaves the heap as h
HeapStep(t, frame, h) ==
    /\ threads' = [threads EXCEPT ![t] = frame]
    /\ heap' = h
    /\ event_tracking' = Tracking(h)
    /\ UNCHANGED <<response, ncalls, clock, nticks>>
    /\ UNCHANGED ledger_vars

\* thread t enters check_fraud_score(anonymous_id, num_events)
BeginCall(t, anonymous_id, num_events) ==
    /\ threads[t].pc = "idle"
    /\ LocalStep(t, [pc |-> "now", anonymous_id |-> anonymous_id,
                     num_events |-> num_events])

\* now = datetime.now()
ReadNow(t) ==
    /\ threads[t].pc = "now"
    /\ LocalStep(t, [pc |-> "check", anonymous_id |-> threads[t].anonymous_id,
                     num_events |-> threads[t].num_events, now |-> clock])

\* if anonymous_id not in event_tracking:
CheckKey(t) ==
    /\ threads[t].pc = "check"
    /\ LocalStep(t, [threads[t] EXCEPT !.pc =
                        IF threads[t].anonymous_id \in DOMAIN heap.at
                        THEN "load" ELSE "create"])

\* event_tracking[anonymous_id] = []
CreateList(t) ==
    /\ threads[t].pc = "create"
    /\ HeapStep(t, [threads[t] EXCEPT !.pc = "load"],
                Bind(heap, threads[t].anonymous_id, <<>>))

\* event_tracking[anonymous_id] is loaded for .append
LoadForAppend(t) ==
    /\ threads[t].pc = "load"
    /\ LocalStep(t, [pc |-> "append", anonymous_id |-> threads[t].anonymous_id,
                     num_events |-> threads[t].num_events, now |-> threads[t].now,
                     ref |-> heap.at[threads[t].anonymous_id]])

\* .append(now) on the list loaded
AppendNow(t) ==
    /\ threads[t].pc = "append"
    /\ HeapStep(t, [threads[t] EXCEPT !.pc = "reload"],
                AppendTo(heap, threads[t].ref, threads[t].now))

\* event_tracking[anonymous_id] is loaded for the list comprehension
LoadForPrune(t) ==
    /\ threads[t].pc = "reload"
    /\ LocalStep(t, [threads[t] EXCEPT !.pc = "filter",
                                       !.ref = heap.at[threads[t].anonymous_id]])

\* [ts for ts in ... if now - ts < timedelta(hours=24)] builds its list
FilterOld(t) ==
    /\ threads[t].pc = "filter"
    /\ LocalStep(t, [pc |-> "store", anonymous_id |-> threads[t].anonymous_id,
                     num_events |-> threads[t].num_events, now |-> threads[t].now,
                     kept |-> PruneOld(heap.objs[threads[t].ref], threads[t].now)])

\* event_tracking[anonymous_id] = <the list built>
StoreKept(t) ==
    /\ threads[t].pc = "store"
    /\ HeapStep(t, [pc |-> "score", anonymous_id |-> threads[t].anonymous_id,
                    num_events |-> threads[t].num_events, now |-> threads[t].now],
                Bind(heap, threads[t].anonymous_id, threads[t].kept))

\* the velocity, batch and timing checks, and the return
ReturnScore(t) ==
    /\ threads[t].pc = "score"
    /\ threads' = [threads EXCEPT ![t] = IdleFrame]
    /\ response' = Outcome(ListAt(heap, threads[t].anonymous_id), threads[t].now,
                           threads[t].anonymous_id, threads[t].num_events)
    /\ ncalls' = ncalls + 1
    /\ UNCHANGED <<heap, event_tracking, clock, nticks>>
    /\ UNCHANGED ledger_vars

\* two threads scoring requests of one identity, a second apart at most
NextThreads ==
    \/ \E t \in Threads :
           ncalls + Busy < MaxThreadCalls /\ BeginCall(t, "u1", <<1>>)
    \/ \E t \in Threads : ReadNow(t)
    \/ \E t \in Threads : CheckKey(t)
    \/ \E t \in Threads : CreateList(t)
    \/ \E t \in Threads : LoadForAppend(t)
    \/ \E t \in Threads : AppendNow(t)
    \/ \E t \in Threads : LoadForPrune(t)
    \/ \E t \in Threads : FilterOld(t)
    \/ \E t \in Threads : StoreKept(t)
    \/ \E t \in Threads : ReturnScore(t)
    \/ \E d \in ThreadSteps : nticks < MaxTicks /\ AdvanceClock(d)

SpecThreads == Init /\ [][NextThreads]_vars

(***************************************************************************)
(* Redirect Ledger and click endpoint                                      *)
(*                                                                         *)
(* A string is a sequence of pieces.  Text the code looks into character   *)
(* by character (parameter names and values, ids) has one character per    *)
(* piece; text it only copies (a merchant URL, the mock URL's head) is one *)
(* piece.                                                                  *)
(***************************************************************************)
MerchantUrls == {<<"https://shop.example/p">>, <<"https://m.example/x?id=7">>}
ParamKeys == {<<"a">>, <<"r", "=">>}
ParamValues == {<<"1">>, <<"a", "&", "=">>, <<" ", "%", "+", "?">>}
ParamPairs == {<<k, v>> : k \in ParamKeys, v \in ParamValues}

\* affiliate_params: a dict, its items in insertion order, no key twice
AffiliateParams ==
    {<<>>} \cup {<<p>> : p \in ParamPairs}
           \cup {pq \in ParamPairs \X ParamPairs : pq[1][1] # pq[2][1]}

\* short ids a caller hands to create_redirect_mapping
ShortIds == {<<"t", "1">>, <<"t", "2">>}
\* a short id nobody mints
UnknownIds == {<<"z", "9">>, <<"z", "0">>}

DealIds == {<<"d">>, <<"d", "1">>}
\* X-Anonymous-Id of the clients; an absent header is None
Clients == {<<"u">>, <<"1", "u">>}
NoHeader == <<>>

\* urllib.parse.quote_plus on one character: letters and digits stay, a
\* space becomes "+", anything else becomes %XX
QuoteChar(c) ==
    CASE c = " " -> <<"+">>
      [] c = "&" -> <<"%", "2", "6">>
      [] c = "=" -> <<"%", "3", "D">>
      [] c = "%" -> <<"%", "2", "5">>
      [] c = "+" -> <<"%", "2", "B">>
      [] c = "?" -> <<"%", "3", "F">>
      [] OTHER   -> <<c>>

RECURSIVE Flatten(_)
Flatten(ss) == IF ss = <<>> THEN <<>> ELSE Head(ss) \o Flatten(Tail(ss))

\* urllib.parse.quote_plus(str)
quote_plus(str) == Flatten([i \in 1..Len(str) |-> QuoteChar(str[i])])

RECURSIVE JoinAmp(_)
JoinAmp(parts) ==
    IF parts = <<>> THEN <<>>
    ELSE IF Len(parts) = 1 THEN parts[1]
    ELSE parts[1] \o <<"&">> \o JoinAmp(Tail(parts))

\* urllib.parse.urlencode(affiliate_params)
urlencode(params) ==
    JoinAmp([i \in 1..Len(params) |->
                quote_plus(params[i][1]) \o <<"=">> \o quote_plus(params[i][2])])

\* the merchant URL stored without its affiliate parameters
full_url_bare(merchant_url, affiliate_params) == merchant_url \o <<"?">>

\* params_str = urlencode(affiliate_params); f"{merchant_url}?{params_str}"
full_url(merchant_url, affiliate_params) ==
    merchant_url \o <<"?">> \o urlencode(affiliate_params)

\* the same URL whatever the short id
mock_redirect_url_fixed(short_id) == <<"https://example.com?aff_id=datapay&ref=">>

\* f"https://example.com?aff_id=datapay&ref={short_id}"
mock_redirect_url(short_id) ==
    <<"https://example.com?aff_id=datapay&ref=">> \o short_id

\* hashlib.md5(text.encode()).hexdigest()[:8].  The digest is kept as the
\* text it was computed from: two texts get the same id only when they are
\* the same text, which is md5 at its best.
md5_hex8(text) == <<"md5:">> \o text

\* a single-use ledger: a hit consumes the mapping
attribution_redirect_single_use(short_id) ==
    LET hit == short_id \in DOMAIN redirect_store
        merchant_url == IF ~hit THEN mock_redirect_url(short_id)
                        ELSE redirect_store[short_id].url
    IN  /\ response' = [call |-> [op |-> "attribution_redirect",
                                  short_id |-> short_id],
                        raised |-> "", status_code |-> 302,
                        url |-> merchant_url]
        /\ redirect_store' =
               [t \in DOMAIN redirect_store \ {short_id} |-> redirect_store[t]]
        /\ UNCHANGED <<nmints, nclicks, minted_args, click_tokens>>
        /\ UNCHANGED scorer_vars
        /\ UNCHANGED thread_vars

\* GET /r/{short_id}.  `not mapping` is true exactly when the id is not a key:
\* every stored mapping is a dict with two entries, which is truthy.
attribution_redirect(short_id) ==
    LET hit == short_id \in DOMAIN redirect_store
        merchant_url == IF ~hit THEN mock_redirect_url(short_id)
                        ELSE redirect_store[short_id].url
    IN  /\ response' = [call |-> [op |-> "attribution_redirect",
                                  short_id |-> short_id],
                        raised |-> "", status_code |-> 302,
                        url |-> merchant_url]
        /\ UNCHANGED <<redirect_store, nmints, nclicks, minted_args, click_tokens>>
        /\ UNCHANGED scorer_vars
        /\ UNCHANGED thread_vars

\* create_redirect_mapping(short_id, merchant_url, affiliate_params)
create_redirect_mapping(short_id, merchant_url, affiliate_params) ==
    LET args == [short_id |-> short_id, merchant_url |-> merchant_url,
                 affiliate_params |-> affiliate_params]
    IN  /\ redirect_store' =
               [t \in DOMAIN redirect_store \cup {short_id} |->
                   IF t = short_id
                   THEN [url |-> full_url(merchant_url, affiliate_params),
                         created_at |-> "timestamp"]
                   ELSE redirect_store[t]]
        /\ minted_args' =
               [t \in DOMAIN minted_args \cup {short_id} |->
                   IF t = short_id THEN args ELSE minted_args[t]]
        /\ response' = [call |-> [op |-> "create_redirect_mapping", args |-> args],
                        raised |-> "", short_id |-> short_id]
        /\ nmints' = nmints + 1
        /\ UNCHANGED <<nclicks, click_tokens>>
        /\ UNCHANGED scorer_vars
        /\ UNCHANGED thread_vars

\* POST /deals/{deal_id}/click with header X-Anonymous-Id
record_deal_click(deal_id, x_anonymous_id) ==
    LET call == [op |-> "record_deal_click", deal_id |-> deal_id,
                 x_anonymous_id |-> x_anonymous_id]
        short_id == md5_hex8(deal_id \o x_anonymous_id)
    IN  /\ nclicks' = nclicks + 1
        /\ IF x_anonymous_id = NoHeader
           THEN /\ response' = [call |-> call, raised |-> "HTTPException 400"]
                /\ UNCHANGED click_tokens
           ELSE /\ response' = [call |-> call, raised |-> "", success |-> TRUE,
                                short_id |-> short_id]
                /\ click_tokens' =
                       [c \in DOMAIN click_tokens \cup {x_anonymous_id} |->
                           IF c = x_anonymous_id THEN short_id ELSE click_tokens[c]]
        /\ UNCHANGED <<redirect_store, nmints, minted_args>>
        /\ UNCHANGED scorer_vars
        /\ UNCHANGED thread_vars

\* mints and redirects
NextLedger ==
    \/ \E t \in ShortIds, m \in MerchantUrls, p \in AffiliateParams :
           nmints < MaxMints /\ create_redirect_mapping(t, m, p)
    \/ \E t \in ShortIds \cup UnknownIds : attribution_redirect(t)

SpecLedger == Init /\ [][NextLedger]_vars

\* the short ids the clicks of SpecClick can return
ClickIds == {md5_hex8(d \o c) : d \in DealIds, c \in Clients}

\* the affiliate parameters of the mints of SpecClick
ClickParams == {<<>>, << <<(<<"a">>), (<<"1">>)>> >>}

\* clicks, redirects of what they returned, and mints under those ids
NextClick ==
    \/ \E d \in DealIds, c \in Clients \cup {NoHeader} :
           nclicks < MaxClicks /\ record_deal_click(d, c)
    \/ \E t \in ClickIds : attribution_redirect(t)
    \/ \E t \in ClickIds, p \in ClickParams :
           nmints < MaxMints
           /\ create_redirect_mapping(t, <<"https://shop.example/p">>, p)

SpecClick == Init /\ [][NextClick]_vars

(***************************************************************************)
(* Deal matching: backend/app/api/v1/deals.py, POST /deals/match           *)
(***************************************************************************)
ElectronicsKeywords == {"headphones", "audio", "wireless", "noise", "sound"}
FitnessKeywords == {"running", "shoes", "workout", "exercise", "nike"}
GeneralKeywords == {"bottle", "cup", "water", "drink", "insulated", "baby",
                    "toddler", "sippy"}

\* any(kw in [...] for kw in keywords)
AnyIn(keywords, words) == \E i \in 1..Len(keywords) : keywords[i] \in words

\* generate_short_id(product_slug, user_id): the first 12 hex digits of the
\* md5 of "slug:user:now", kept as the text that is hashed
generate_short_id(product_slug, user_id, now) ==
    [md5_hex12 |-> <<product_slug, ":", user_id, ":">>, isoformat |-> now]

\* DealMatch(...): the fields that depend on the request
DealMatch(product_slug, user_id, keywords, now) ==
    [product     |-> product_slug,
     redirectUrl |-> [path |-> "/r/",
                      short_id |-> generate_short_id(product_slug, user_id, now)],
     reason      |-> SubSeq(keywords, 1, IF Len(keywords) < 2 THEN Len(keywords) ELSE 2)]

\* the body of `for signal in payload.signals`
SignalMatches(signal, user_id, now) ==
    IF signal.category = "electronics" /\ AnyIn(signal.entities, ElectronicsKeywords)
    THEN <<DealMatch("sony-xm5", user_id, signal.entities, now),
           DealMatch("airpods-pro", user_id, signal.entities, now)>>
    ELSE IF signal.category = "fitness" /\ AnyIn(signal.entities, FitnessKeywords)
    THEN <<DealMatch("nike-pegasus", user_id, signal.entities, now)>>
    ELSE IF signal.category = "general" /\ AnyIn(signal.entities, GeneralKeywords)
    THEN <<DealMatch("owala-bottle", user_id, signal.entities, now),
           DealMatch("contigo-mug", user_id, signal.entities, now)>>
    ELSE <<>>

RECURSIVE AllMatches(_, _, _)
AllMatches(signals, user_id, now) ==
    IF signals = <<>> THEN <<>>
    ELSE SignalMatches(Head(signals), user_id, now)
         \o AllMatches(Tail(signals), user_id, now)

\* matches[:2]
TopTwo(matches) == SubSeq(matches, 1, IF Len(matches) < 2 THEN Len(matches) ELSE 2)

\* POST /deals/match: the matches are mock data and the points a fixed 10;
\* nothing is scored and nothing is stored
match_deals(payload) ==
    /\ response' = [call |-> [op |-> "match_deals", payload |-> payload],
                    raised |-> "", success |-> TRUE,
                    matches |-> TopTwo(AllMatches(payload.signals,
                                                  payload.anonymousId, clock)),
                    pointsEarned |-> 10]
    /\ UNCHANGED scorer_vars
    /\ UNCHANGED ledger_vars
    /\ UNCHANGED thread_vars

(***************************************************************************)
(* The whole backend: every operation, a few requests in all               *)
(***************************************************************************)
MatchSignals ==
    {<<>>,
     <<[category |-> "electronics", entities |-> <<"audio">>]>>,
     <<[category |-> "electronics", entities |-> <<"cup">>]>>,
     <<[category |-> "fitness", entities |-> <<"nike", "shoes", "run">>],
       [category |-> "general", entities |-> <<"cup">>]>>}
MatchPayloads == {[anonymousId |-> "u1", signals |-> g] : g \in MatchSignals}
\* a call that raises at `num_events > 80` has changed the history too
SystemBatchSizes == {NoneValue, <<1>>}
SystemSteps == {1, Hours24}
SystemTokens == {<<"t", "1">>, <<"z", "9">>}

\* scoring calls, clock advances, mints and clicks made so far
SystemOps == ncalls + nticks + nmints + nclicks

NextSystem ==
    \/ \E k \in IdentityKeys, n \in SystemBatchSizes :
           SystemOps < MaxSystemOps /\ check_fraud_score(k, n)
    \/ \E d \in SystemSteps : SystemOps < MaxSystemOps /\ AdvanceClock(d)
    \/ \E payload \in MatchPayloads : match_deals(payload)
    \/ SystemOps < MaxSystemOps
       /\ create_redirect_mapping(<<"t", "1">>, <<"https://shop.example/p">>, <<>>)
    \/ \E t \in SystemTokens : attribution_redirect(t)
    \/ \E c \in {<<"u">>, NoHeader} :
           SystemOps < MaxSystemOps /\ record_deal_click(<<"d">>, c)

SpecSystem == Init /\ [][NextSystem]_vars

(***************************************************************************)
(* Claims about the Risk Scorer                                            *)
(***************************************************************************)
Scored == response.call.op = "check_fraud_score"
Returned == Scored /\ response.raised = ""

\* the identity's recorded events strictly less than one hour old at `now`
CountRecent(h, now) == Cardinality({i \in 1..Len(h) : now - h[i] < 3600})

\* C1: every check_fraud_score call with an integer batch size returns, and
\* the score it returns is an integer between 0 and 100, whatever the
\* identity, the batch size and the history built by the earlier calls.
C1_ScoreInRange ==
    (Scored /\ response.call.num_events # NoneValue) =>
        /\ response.raised = ""
        /\ response.score \in 0..100

\* a call has returned the largest score the terms can add up to
C1_Witness ==
    /\ Returned
    /\ response.score = 70
    /\ response.call.num_events = <<81>>
    /\ Len(event_tracking["u1"]) > 100

\* C6: with c the identity's events (this call's included) strictly less
\* than one hour old, the velocity term is 40 iff c > 100, 20 iff
\* 50 < c <= 100 and 0 iff c <= 50; so for calls with batch size 1 made
\* within one hour by an identity with no earlier history, the 50th gets 0,
\* the 51st and the 100th get 20, and the 101st gets 40 and a score in
\* 40..100.
C6_VelocityBandExact ==
    Returned =>
        LET h == event_tracking[response.call.anonymous_id]
            c == CountRecent(h, response.call.now)
            v == response.velocity
        IN  /\ v = 40 <=> c > 100
            /\ v = 20 <=> (50 < c /\ c <= 100)
            /\ v = 0 <=> c <= 50
            /\ (response.call.num_events = <<1>> /\ Len(h) = c) =>
                  /\ c = 50 => v = 0
                  /\ c = 51 => v = 20
                  /\ c = 100 => v = 20
                  /\ c = 101 => (v = 40 /\ response.score >= 40
                                        /\ response.score <= 100)

\* the 101st call within the hour, batch size 1, got the 40-point band
C6_Witness ==
    /\ Returned
    /\ ncalls = 101
    /\ response.call.num_events = <<1>>
    /\ Len(event_tracking["u1"]) = 101
    /\ CountRecent(event_tracking["u1"], response.call.now) = 101
    /\ clock > 0
    /\ response.velocity = 40

\* C7: a check_fraud_score(k, _) call made at `now` leaves in k's history
\* exactly the earlier entries less than 24 hours old, in their order,
\* followed by `now`: no entry 24 hours old or older stays (one 24h + 1s old
\* is removed) and none younger is lost (one 23h59m59s old is kept).
C7_PruneOnAccess ==
    [][ncalls' = ncalls + 1 =>
          LET k   == response'.call.anonymous_id
              now == response'.call.now
              old == History(k)
              new == event_tracking'[k]
          IN  /\ \A i \in 1..Len(new) : now - new[i] < 86400
              /\ new = SelectSeq(old, LAMBDA ts : now - ts < 86400) \o <<now>>
              /\ \A i \in 1..Len(old) :
                    /\ now - old[i] = 86401 => \A j \in 1..Len(new) : new[j] # old[i]
                    /\ now - old[i] = 86399 => \E j \in 1..Len(new) : new[j] = old[i]
    ]_vars

\* u1 scored at 0, at 2 and at 86401: the entry 24h + 1s old is gone and the
\* one 23h59m59s old is still there
C7_Witness ==
    /\ Scored
    /\ response.call.anonymous_id = "u1"
    /\ response.call.now = 86401
    /\ DOMAIN event_tracking = {"u1"}
    /\ ncalls = 3
    /\ event_tracking["u1"] = <<2, 86401>>

\* the gaps between successive entries of a history, and their variance
\* compared to 1:  sum(x^2)/n - (sum(x)/n)^2 < 1, times n*n
GapsOf(h) == [i \in 1..(Len(h) - 1) |-> h[i + 1] - h[i]]
GapVarianceBelowOne(g) ==
    LET n == Len(g)
    IN  n * SumSeq([i \in 1..n |-> g[i] * g[i]]) - SumSeq(g) * SumSeq(g) < n * n

\* C8: the timing term is 20 iff the pruned history (this call's timestamp
\* included) has more than 10 entries and the variance of its successive
\* gaps is below 1.0, and 0 otherwise: 11 events 5 s apart get 20, 10 or
\* fewer events get 0, 11 events whose gaps have variance >= 1.0 get 0.
C8_TimingRegularity ==
    Returned =>
        LET h == event_tracking[response.call.anonymous_id]
            g == GapsOf(h)
            t == response.timing
        IN  /\ t \in {0, 20}
            /\ t = 20 <=> (Len(h) > 10 /\ GapVarianceBelowOne(g))
            /\ (Len(h) = 11 /\ \A i \in 1..10 : g[i] = 5) => t = 20
            /\ Len(h) <= 10 => t = 0
            /\ (Len(h) = 11 /\ ~GapVarianceBelowOne(g)) => t = 0

\* the 11th of 11 events exactly 5 s apart got the 20 points
C8_Witness ==
    /\ Returned
    /\ Len(event_tracking["u1"]) = 11
    /\ \A i \in 1..10 : event_tracking["u1"][i + 1] - event_tracking["u1"][i] = 5
    /\ response.timing = 20

\* C9: a call with a negative or an absent (None) batch size does not raise
\* and returns the score a batch size of 0 gets on the same history.
C9_DegenerateBatchAsZero ==
    (Scored /\ (IF response.call.num_events = NoneValue THEN TRUE
                ELSE response.call.num_events[1] < 0)) =>
        /\ response.raised = ""
        /\ response.score = response.velocity + response.timing

(***************************************************************************)
(* Claims about the Redirect Ledger and the click endpoint                 *)
(***************************************************************************)
Resolved == response.call.op = "attribution_redirect"
Missed == Resolved /\ response.call.short_id \notin DOMAIN redirect_store
Clicked == response.call.op = "record_deal_click" /\ response.raised = ""

\* what the merchant reads back from a query string (urllib.parse.parse_qsl
\* with blank values kept): split at "&", then at the first "=", then undo
\* "+" and %XX
FirstIndex(str, c) ==
    IF \E i \in 1..Len(str) : str[i] = c
    THEN CHOOSE i \in 1..Len(str) :
             str[i] = c /\ \A j \in 1..(i - 1) : str[j] # c
    ELSE 0

RECURSIVE SplitAmp(_)
SplitAmp(str) ==
    LET i == FirstIndex(str, "&")
    IN  IF i = 0 THEN <<str>>
        ELSE <<SubSeq(str, 1, i - 1)>> \o SplitAmp(SubSeq(str, i + 1, Len(str)))

HexChar(h, l) ==
    CASE <<h, l>> = <<"2", "6">> -> "&"
      [] <<h, l>> = <<"3", "D">> -> "="
      [] <<h, l>> = <<"2", "5">> -> "%"
      [] <<h, l>> = <<"2", "B">> -> "+"
      [] <<h, l>> = <<"3", "F">> -> "?"
      [] OTHER -> "invalid"

RECURSIVE unquote_plus(_)
unquote_plus(str) ==
    IF str = <<>> THEN <<>>
    ELSE IF str[1] = "+" THEN <<" ">> \o unquote_plus(Tail(str))
    ELSE IF str[1] = "%" /\ Len(str) >= 3
         THEN <<HexChar(str[2], str[3])>> \o unquote_plus(SubSeq(str, 4, Len(str)))
    ELSE <<str[1]>> \o unquote_plus(Tail(str))

parse_qsl(query) ==
    IF query = <<>> THEN <<>>
    ELSE LET parts == SplitAmp(query)
         IN  [i \in 1..Len(parts) |->
                 LET e == FirstIndex(parts[i], "=")
                 IN  <<unquote_plus(SubSeq(parts[i], 1, e - 1)),
                       unquote_plus(SubSeq(parts[i], e + 1, Len(parts[i])))>>]

\* C2: after create_redirect_mapping(t, base, params), with no later mint
\* for t, attribution_redirect(t) answers a 302 to the URL stored at mint
\* time: base, then "?", then a query string that reads back as exactly the
\* key/value pairs of params, in their order.
C2_MintResolveRoundTrip ==
    (Resolved /\ response.call.short_id \in DOMAIN minted_args) =>
        LET t    == response.call.short_id
            base == minted_args[t].merchant_url
            url  == response.url
        IN  /\ response.raised = ""
            /\ response.status_code = 302
            /\ url = redirect_store[t].url
            /\ Len(url) > Len(base)
            /\ SubSeq(url, 1, Len(base)) = base
            /\ url[Len(base) + 1] = "?"
            /\ parse_qsl(SubSeq(url, Len(base) + 2, Len(url)))
                   = minted_args[t].affiliate_params

\* t1 minted with {"a": "a&=", "r=": " %+?"} and then resolved
C2_Witness ==
    /\ Resolved
    /\ response.call.short_id = <<"t", "1">>
    /\ <<"t", "1">> \in DOMAIN minted_args
    /\ minted_args[<<"t", "1">>].affiliate_params =
           << <<(<<"a">>), (<<"a", "&", "=">>)>>,
              <<(<<"r", "=">>), (<<" ", "%", "+", "?">>)>> >>
    /\ response.url =
           <<"https://shop.example/p", "?", "a", "=", "a", "%", "2", "6",
             "%", "3", "D", "&", "r", "%", "3", "D", "=", "+", "%", "2", "5",
             "%", "2", "B", "%", "3", "F">>

C4_MintNeverOverwrites ==
    [][nmints' = nmints + 1 =>
          \A t \in DOMAIN redirect_store :
              /\ t \in DOMAIN redirect_store'
              /\ redirect_store'[t].url = redirect_store[t].url]_vars

\* C5: starting from an empty ledger, when n distinct clients have each
\* issued one mint (a click) and no other mint was made, the n short ids
\* returned are pairwise distinct and the ledger holds exactly n entries.
C5_ConcurrentMintsDistinct ==
    (nmints = 0 /\ nclicks = Cardinality(DOMAIN click_tokens)) =>
        /\ \A c1, c2 \in DOMAIN click_tokens :
               c1 # c2 => click_tokens[c1] # click_tokens[c2]
        /\ Cardinality(DOMAIN redirect_store) = nclicks

\* C10: when record_deal_click returns short id t, the ledger holds a
\* mapping for t, and a later attribution_redirect(t) answers the stored
\* URL, not the unknown-id URL.
C10_ClickThenRedirect ==
    /\ Clicked => response.short_id \in DOMAIN redirect_store
    /\ (Resolved /\ \E c \in DOMAIN click_tokens :
                       click_tokens[c] = response.call.short_id) =>
           /\ response.call.short_id \in DOMAIN redirect_store
           /\ response.url = redirect_store[response.call.short_id].url

(***************************************************************************)
(* C11  Per-key atomicity of scoring                                       *)
(***************************************************************************)
\* no thread is inside a call
AllReturned == \A t \in Threads : threads[t].pc = "idle"

\* C11 as claimed: whatever the interleaving of the threads' calls for one
\* identity, no appended timestamp is lost: once the n calls, all made
\* within 24 hours, have returned, the identity's history holds exactly n
\* entries.
C11_NoLostAppend ==
    (AllReturned /\ clock < Hours24) => Len(History("u1")) = ncalls

(***************************************************************************)
(* C12  Resolve is read-only and replayable                                *)
(***************************************************************************)
\* C12: a step that answers attribution_redirect(t) leaves the redirect
\* ledger as it was, on a hit (the mapping of t is neither removed nor
\* altered, and its stored URL is the one returned) and on a miss (no entry
\* is created); so a resolve of t that follows a resolve of t, with no mint
\* in between, returns the same URL.
C12_ResolveReadOnly ==
    [][(response'.call.op = "attribution_redirect" /\ nmints' = nmints) =>
          LET t == response'.call.short_id
          IN  /\ redirect_store' = redirect_store
              /\ t \in DOMAIN redirect_store =>
                     response'.url = redirect_store[t].url
              /\ t \notin DOMAIN redirect_store =>
                     t \notin DOMAIN redirect_store'
              /\ (Resolved /\ response.call.short_id = t) =>
                     response'.url = response.url]_vars

\* both tokens are minted, t1 has just been resolved from the ledger, and
\* the ledger still holds the URL each mint stored
C12_Witness ==
    /\ Resolved
    /\ response.call.short_id = <<"t", "1">>
    /\ DOMAIN redirect_store = ShortIds
    /\ response.url = redirect_store[<<"t", "1">>].url
    /\ \A t \in ShortIds :
           redirect_store[t].url = full_url(minted_args[t].merchant_url,
                                            minted_args[t].affiliate_params)

(***************************************************************************)
(* C13  EventHistory window invariant                                      *)
(***************************************************************************)
\* C13 as claimed: in every reachable state, with the clock at T, every
\* stored timestamp ts of every identity has T - ts inside the trailing 24
\* hours, also while the identity is idle and time has moved on.
C13_WindowAtAnyTime ==
    \A k \in DOMAIN event_tracking :
        \A i \in 1..Len(event_tracking[k]) :
            clock - event_tracking[k][i] < 86400

\* C13 amended: the window is relative to the identity's latest scoring
\* call.  In every reachable state every stored history is non-empty, ends
\* with the time of that identity's latest call, which is not in the future,
\* and holds only timestamps less than 24 hours older than that call; the
\* history of the identity just scored ends with the `now` of the call.
C13_WindowAtLastCall ==
    /\ \A k \in DOMAIN event_tracking :
           LET h == event_tracking[k]
           IN  /\ Len(h) >= 1
               /\ h[Len(h)] <= clock
               /\ \A i \in 1..Len(h) :
                      /\ h[i] <= h[Len(h)]
                      /\ h[Len(h)] - h[i] < 86400
    /\ Scored =>
           /\ response.call.anonymous_id \in DOMAIN event_tracking
           /\ LET h == event_tracking[response.call.anonymous_id]
              IN  h[Len(h)] = response.call.now

\* u1 was scored at 0 and at 1 and has been idle since; 24 hours and a
\* second later u2 is scored: u1's entries are still stored, both now older
\* than 24 hours
C13_Witness ==
    /\ Scored
    /\ response.call.anonymous_id = "u2"
    /\ response.call.now = 86401
    /\ clock = 86401
    /\ DOMAIN event_tracking = {"u1", "u2"}
    /\ event_tracking["u1"] = <<0, 1>>
    /\ event_tracking["u2"] = <<86401>>

(***************************************************************************)
(* C14  Effect and frame of scoring                                        *)
(***************************************************************************)
\* C14: a check_fraud_score(k, n) call at time `now` changes, of the shared
\* state, only the history of k, which becomes the earlier history
\* restricted to the entries less than 24 hours old, plus exactly one new
\* entry equal to `now` (so a second call adds a second entry); the history
\* of every other identity and the redirect ledger are unchanged; and no
\* step of any other operation (match_deals, record_deal_click,
\* attribution_redirect, create_redirect_mapping, the passing of time)
\* changes any history.
C14_ScoringEffectAndFrame ==
    [][/\ ncalls' = ncalls + 1 =>
              LET k    == response'.call.anonymous_id
                  now  == response'.call.now
                  kept == SelectSeq(History(k), LAMBDA ts : now - ts < 86400)
              IN  /\ now = clock
                  /\ DOMAIN event_tracking' = DOMAIN event_tracking \cup {k}
                  /\ event_tracking'[k] = kept \o <<now>>
                  /\ Len(event_tracking'[k]) = Len(kept) + 1
                  /\ \A j \in DOMAIN event_tracking \ {k} :
                         event_tracking'[j] = event_tracking[j]
                  /\ redirect_store' = redirect_store
       /\ ncalls' = ncalls => event_tracking' = event_tracking
    ]_vars

\* u2 was scored at 0 and a mapping was minted; 24 hours later u1 has been
\* scored twice in a row: u1 has two entries, u2's stale entry and the
\* ledger are as they were
C14_Witness ==
    /\ Scored
    /\ response.call.anonymous_id = "u1"
    /\ response.call.now = 86400
    /\ DOMAIN event_tracking = {"u1", "u2"}
    /\ event_tracking["u1"] = <<86400, 86400>>
    /\ event_tracking["u2"] = <<0>>
    /\ DOMAIN redirect_store = {<<"t", "1">>}

(***************************************************************************)
(* C15  Reachable score values                                             *)
(***************************************************************************)
\* C15: the behavioural-entropy and fingerprint terms being always 0, every
\* value check_fraud_score returns is one of 0, 10, 20, 30, 40, 50, 60, 70:
\* the sum before the clamp never exceeds 70, the clamp to 100 never
\* changes the result, and no call returns a score above the high-risk
\* threshold of 80.
C15_ReachableScores ==
    Returned =>
        /\ response.score \in {0, 10, 20, 30, 40, 50, 60, 70}
        /\ response.raw <= 70
        /\ response.score = response.raw
        /\ response.raw = response.velocity
                          + (IF response.call.num_events[1] > 80 THEN 10 ELSE 0)
                          + response.timing
        /\ ~(response.score > 80)

\* the 101st call within the hour, with a batch of 81 and evenly timed
\* history: all three live terms at their maximum, and the sum is 70
C15_Witness ==
    /\ Returned
    /\ response.velocity = 40
    /\ response.timing = 20
    /\ response.call.num_events = <<81>>
    /\ response.raw = 70
    /\ response.score = 70
    /\ ncalls = 101

====
